---- MODULE Spec2Model ----
\* The typed value interface of a HELICS value federate: one Input object
\* (src/helics/application_api/Inputs.hpp) together with the part of the federate
\* it talks to (raw buffer, per-input update flag, federate mode).
\*
\* Representation of values.  A tagged value (defV) is a record [tag, val].
\*   tag "double": val is the number of halves, so 3 stands for 1.5;
\*   tag "int"   : val is the int64_t itself.
\* Deltas (double) are counted in halves as well: the constructor's -1.0 is -2.
EXTENDS Integers, FiniteSets, Sequences, TLC

\* ---------------------------------------------------------------- bounds
\* largest magnitude, in halves, of a published or default double
MaxHalves == 3

DoubleVals == 0..MaxHalves
IntVals == 0..(MaxHalves \div 2)
\* the primary types that are read, published and installed as defaults
NumTypes == {"double", "int"}
\* the arguments given to setMinimumChange: -1.0, 0.0, 1.0
DeltaArgs == {-2, 0, 2}
\* unit strings: "" is no unit, one "m" is two "hm"
InUnits == {"", "m"}
OutUnits == {"", "hm"}

ValsOf(t) == IF t = "double" THEN DoubleVals ELSE IntVals
DV(t, v) == [tag |-> t, val |-> v]
NoValue == [tag |-> "none", val |-> 0]

VARIABLES
    lastValue,               \* Input::lastValue
    changeDetectionEnabled,  \* Input::changeDetectionEnabled
    hasUpdate,               \* Input::hasUpdate
    delta,                   \* Input::delta (halves)
    injectionType,           \* Input::injectionType
    inputUnits,              \* Input::inputUnits
    outputUnits,             \* Input::outputUnits
    fedUpdated,              \* what fed->isUpdated(*this) answers
    fedRaw,                  \* what fed->getValueRaw(*this) hands out
    fedMode,                 \* the federate's mode
    pubType,                 \* type of the connected publication (in the core)
    pubUnits,                \* units of the connected publication (in the core)
    defaultValue,            \* the value setDefault installed, while no publication has arrived
    last,                    \* the last call on the input: arguments, result, state before
    value_callback,          \* Input::value_callback: the value type of the typed callback held
    fedCallback,             \* the callback the federate holds for the input
    registered,              \* the kinds of callback the application has installed so far
    invoked,                 \* the application callbacks run by the last dispatch, in order
    arrived,                 \* the values published to the input in the last cycle, in order
    time,                    \* the federate's current time
    closed,                  \* the interface of the input has been closed
    atClose,                 \* the closes so far, and the input as the first close found it
    phase,                   \* "dispatch" while a scanned update awaits its callback
    registry,                \* the inputs of the federate: registration, arrival and dispatch order
    inputVectorOp,           \* Input::inputVectorOp, the multi-input policy
    multi,                   \* the publications bound to the input and their buffers of the cycle
    scan,                    \* the inputs of a registry scan: buffers, flags, decode errors
    msgFed,                  \* the endpoints of a message federate and their pending messages
    endpoint,                \* an Endpoint: its target destination and the messages it sent
    strVec,                  \* the container handed to generateStringVector and the results
    loadCalls                \* the calls of loadSourceInformation so far

inputVars == <<lastValue, changeDetectionEnabled, hasUpdate, delta, injectionType,
               inputUnits, outputUnits>>
fedVars == <<fedUpdated, fedRaw, fedMode, pubType, pubUnits>>
dispatchVars == <<value_callback, fedCallback, registered, invoked, arrived, time, closed,
                 atClose, phase, registry>>
extVars == <<inputVectorOp, multi, scan, msgFed, endpoint, strVec>>
auxVars == <<dispatchVars, extVars, loadCalls>>
vars == <<inputVars, fedVars, defaultValue, last, auxVars>>
\* what the operations on targets, registry, endpoints and messages leave alone
coreVars == <<inputVars, fedVars, defaultValue, dispatchVars, loadCalls, strVec>>

\* ---------------------------------------------------------------- values
\* static_cast<int64_t>(double): truncation toward zero
DoubleToInt(h) == IF h >= 0 THEN h \div 2 ELSE -((-h) \div 2)
\* static_cast<double>(int64_t)
IntToDouble(i) == 2 * i

\* valueExtract(const defV&, X&): the stored value converted to type X
valueExtract(v, X) ==
    IF v.tag = X THEN v
    ELSE IF X = "int" THEN DV("int", DoubleToInt(v.val))
    ELSE DV("double", IntToDouble(v.val))

\* the numeric value of a tagged value, in halves
Halves(v) == IF v.tag = "double" THEN v.val ELSE IntToDouble(v.val)
Abs(n) == IF n >= 0 THEN n ELSE -n

\* units::convert between the input's units and the requested ones; only
\* applied when both are set
unitConvert(x, uin, uout) ==
    IF uin = "" \/ uout = "" THEN x
    ELSE IF uin = "m" /\ uout = "hm" THEN 2 * x
    ELSE x

\* doubleExtractAndConvert(dv, inputUnits, outputUnits)
doubleExtractAndConvert(dv, uin, uout) == DV("double", unitConvert(dv.val, uin, uout))

\* integerExtractAndConvert(store, dv, inputUnits, outputUnits)
integerExtractAndConvert(dv, uin, uout) == DV("int", unitConvert(dv.val, uin, uout))

\* the three-way decode of getValue_impl / getValueRef: raw buffer dv of
\* injection type inj, read as type X
extractRaw(dv, inj, uin, uout, X) ==
    IF inj = "double" THEN valueExtract(doubleExtractAndConvert(dv, uin, uout), X)
    ELSE IF inj = "int" THEN valueExtract(integerExtractAndConvert(dv, uin, uout), X)
    ELSE valueExtract(dv, X)

\* changeDetected(prevValue, val, deltaV)
changeDetected(p, v, d) ==
    IF p.tag # v.tag THEN TRUE
    ELSE IF p.tag = "double" THEN Abs(v.val - p.val) > d
    ELSE IntToDouble(Abs(v.val - p.val)) > d

\* ---------------------------------------------------------------- federate side
\* fed->isUpdated(*this)
fedIsUpdated == fedUpdated
\* a raw buffer has been delivered for the input
rawValid == fedRaw.tag # "none"

\* loadSourceInformation(): injection type and units as the core knows them
loadedType == IF injectionType = "unknown" THEN pubType ELSE injectionType
loadedUnits == IF injectionType = "unknown" THEN pubUnits ELSE inputUnits

\* ---------------------------------------------------------------- input helpers
\* allowDirectFederateUpdate that looks at the has-update flag only
allowDirectAnyFlag == hasUpdate

\* Input::allowDirectFederateUpdate
allowDirectFederateUpdate == hasUpdate /\ ~changeDetectionEnabled /\ inputVectorOp = "no_op"

\* setMinimumChange that enables detection for every non-negative delta
setMinimumChangeFlagBySign(cde, oldDelta, deltaV) == deltaV >= 0

\* the flag setMinimumChange leaves behind
setMinimumChangeFlag(cde, oldDelta, deltaV) ==
    LET first == IF oldDelta < 0 THEN TRUE ELSE cde
    IN  IF deltaV < 0 THEN FALSE ELSE first

\* getValue_impl that stores every decoded value, detection or not
getValueStoreAlways(lv, out, cde, d) == out

\* getValue_impl that stores a decoded value only under change detection
getValueStoreDetectedOnly(lv, out, cde, d) ==
    IF changeDetected(lv, out, d) /\ cde THEN out ELSE lv

\* the value getValue_impl leaves in lastValue after a decode of out
getValueStore(lv, out, cde, d) ==
    IF cde THEN (IF changeDetected(lv, out, d) THEN out ELSE lv)
    ELSE out

\* the value getValue_impl hands back after a decode of out
getValueOut(lv, out, cde, d) ==
    IF cde /\ ~changeDetected(lv, out, d) THEN valueExtract(lv, out.tag)
    ELSE out

\* the value getValueRef leaves in lastValue before the final conversion:
\* out is the buffer read as X with units, direct is the buffer decoded as
\* its injection type
getValueRefStore(lv, out, direct, cde, d) ==
    IF cde THEN (IF changeDetected(lv, out, d) THEN out ELSE lv)
    ELSE direct

\* getValueRefImpl that hands out the stored value without converting it
getValueRefImplNoConvert(v, X) == v

\* getValueRefImpl<X>(defV&): converts the stored value in place
getValueRefImpl(v, X) == valueExtract(v, X)

\* the candidate checkUpdate compares with the stored value: the raw buffer
\* read as the type of the stored value
candidate == extractRaw(fedRaw, loadedType, loadedUnits, outputUnits, lastValue.tag)

\* what the non-const isUpdated() answers: the flag, or a pending buffer
\* that the change detection would let through
isUpdatedResult ==
    \/ hasUpdate
    \/ /\ fedIsUpdated
       /\ changeDetectionEnabled => changeDetected(lastValue, candidate, delta)

\* what isUpdated() const answers: it cannot decode
isUpdatedConstResult == hasUpdate \/ fedIsUpdated

\* the state before a call, kept with the call
Pre == [lastValue |-> lastValue, cde |-> changeDetectionEnabled,
        hasUpdate |-> hasUpdate, delta |-> delta, injectionType |-> injectionType,
        inputUnits |-> inputUnits, fedUpdated |-> fedUpdated, fedRaw |-> fedRaw,
        fedMode |-> fedMode, isUpdated |-> isUpdatedResult, loadCalls |-> loadCalls]

\* a fetch that calls loadSourceInformation() whatever the injection type
loadCallsAfterAlways == loadCalls + 1

\* the calls of loadSourceInformation() after a fetch: one more if the
\* injection type is still unknown
loadCallsAfter == IF injectionType = "unknown" THEN loadCalls + 1 ELSE loadCalls

Call(op, X, d, b, ret, retB) ==
    [op |-> op, X |-> X, d |-> d, b |-> b, ret |-> ret, retB |-> retB,
     error |-> FALSE, pre |-> Pre]

\* ---------------------------------------------------------------- initial state
\* a constructed Input: the member initialisers, and a federate that has
\* delivered nothing
Constructed ==
    /\ lastValue = DV("double", 0)
    /\ changeDetectionEnabled = FALSE
    /\ hasUpdate = FALSE
    /\ delta = -2
    /\ injectionType = "unknown"
    /\ inputUnits = ""
    /\ fedUpdated = FALSE
    /\ fedRaw = NoValue
    /\ fedMode = "startup"
    /\ defaultValue = NoValue
    /\ value_callback = "none"
    /\ fedCallback = "none"
    /\ registered = [typed |-> "none", notify |-> FALSE, replaced |-> FALSE]
    /\ invoked = <<>>
    /\ arrived = <<>>
    /\ time = 0
    /\ closed = FALSE
    /\ atClose = [n |-> 0, value |-> NoValue, pending |-> FALSE]
    /\ phase = "idle"
    /\ registry = [inputs |-> <<>>, pending |-> <<>>, scanned |-> <<>>, fired |-> <<>>]
    /\ inputVectorOp = "no_op"
    /\ multi = [targets |-> <<>>, arrival |-> <<>>]
    /\ scan = <<>>
    /\ msgFed = [pending |-> <<>>, arrivals |-> 0, returned |-> [ept |-> 0, id |-> 0]]
    /\ endpoint = [targetDest |-> "", given |-> <<>>, sent |-> <<>>]
    /\ strVec = [data |-> <<>>, ret |-> <<>>, retIf |-> <<>>]
    /\ loadCalls = 0
    /\ last = [op |-> "construct", X |-> "", d |-> 0, b |-> FALSE, ret |-> NoValue,
               retB |-> FALSE, error |-> FALSE,
               pre |-> [lastValue |-> DV("double", 0), cde |-> FALSE,
                        hasUpdate |-> FALSE, delta |-> -2,
                        injectionType |-> "unknown", inputUnits |-> "",
                        fedUpdated |-> FALSE, fedRaw |-> NoValue,
                        fedMode |-> "startup", isUpdated |-> FALSE, loadCalls |-> 0]]

Init ==
    /\ Constructed
    /\ outputUnits \in OutUnits
    /\ pubType \in NumTypes
    /\ pubUnits \in InUnits

\* ---------------------------------------------------------------- federate actions
\* Federate::enterInitializingMode
EnterInitializingMode ==
    /\ fedMode = "startup"
    /\ fedMode' = "initializing"
    /\ UNCHANGED auxVars
    /\ last' = Call("enterInitializingMode", "", 0, FALSE, NoValue, FALSE)
    /\ UNCHANGED <<inputVars, fedUpdated, fedRaw, pubType, pubUnits, defaultValue>>

\* Federate::enterExecutingMode
EnterExecutingMode ==
    /\ fedMode = "initializing"
    /\ fedMode' = "executing"
    /\ UNCHANGED auxVars
    /\ last' = Call("enterExecutingMode", "", 0, FALSE, NoValue, FALSE)
    /\ UNCHANGED <<inputVars, fedUpdated, fedRaw, pubType, pubUnits, defaultValue>>

\* a publication of v reaches the federate: the raw buffer is replaced and
\* the federate reports the input updated
Publish(v) ==
    /\ fedMode = "executing"
    /\ fedRaw' = DV(pubType, v)
    /\ fedUpdated' = TRUE
    /\ defaultValue' = NoValue
    /\ UNCHANGED auxVars
    /\ last' = Call("publish", pubType, v, FALSE, NoValue, FALSE)
    /\ UNCHANGED <<inputVars, fedMode, pubType, pubUnits>>

\* ---------------------------------------------------------------- input actions
\* Input::setDefault<X>(val), X a primary type: no check of the federate's
\* mode, no error path
SetDefault(X, v) ==
    /\ lastValue' = DV(X, v)
    /\ defaultValue' = IF rawValid THEN NoValue ELSE DV(X, v)
    /\ UNCHANGED auxVars
    /\ last' = Call("setDefault", X, v, FALSE, NoValue, FALSE)
    /\ UNCHANGED <<changeDetectionEnabled, hasUpdate, delta, injectionType,
                   inputUnits, outputUnits, fedVars>>

\* Input::setMinimumChange(deltaV)
SetMinimumChange(deltaV) ==
    /\ changeDetectionEnabled' = setMinimumChangeFlag(changeDetectionEnabled, delta, deltaV)
    /\ delta' = deltaV
    /\ UNCHANGED auxVars
    /\ last' = Call("setMinimumChange", "", deltaV, FALSE, NoValue, FALSE)
    /\ UNCHANGED <<lastValue, hasUpdate, injectionType, inputUnits, outputUnits, fedVars,
                   defaultValue>>

\* enableChangeDetection that forgets the delta when it disables
EnableChangeDetectionWipe(enabled) ==
    /\ changeDetectionEnabled' = enabled
    /\ delta' = IF enabled THEN delta ELSE -2
    /\ UNCHANGED auxVars
    /\ last' = Call("enableChangeDetection", "", 0, enabled, NoValue, FALSE)
    /\ UNCHANGED <<lastValue, hasUpdate, injectionType, inputUnits,
                   outputUnits, fedVars, defaultValue>>

\* Input::enableChangeDetection(enabled)
EnableChangeDetection(enabled) ==
    /\ changeDetectionEnabled' = enabled
    /\ UNCHANGED auxVars
    /\ last' = Call("enableChangeDetection", "", 0, enabled, NoValue, FALSE)
    /\ UNCHANGED <<lastValue, hasUpdate, delta, injectionType, inputUnits,
                   outputUnits, fedVars, defaultValue>>

\* what getValue<X>() returns in the current state
getValueResult(X) ==
    LET fetch == fedIsUpdated \/ allowDirectFederateUpdate
        out == extractRaw(fedRaw, loadedType, loadedUnits, outputUnits, X)
    IN  IF fetch THEN getValueOut(lastValue, out, changeDetectionEnabled, delta)
        ELSE valueExtract(lastValue, X)

\* getValue<X>() without the final hasUpdate = false
GetValueKeepsFlag(X) ==
    LET fetch == fedIsUpdated \/ allowDirectFederateUpdate
        out == extractRaw(fedRaw, loadedType, loadedUnits, outputUnits, X)
    IN  /\ IF fetch
           THEN /\ fedUpdated' = FALSE
                /\ injectionType' = loadedType
                /\ loadCalls' = loadCallsAfter
                /\ inputUnits' = loadedUnits
                /\ lastValue' = getValueStore(lastValue, out, changeDetectionEnabled, delta)
           ELSE UNCHANGED <<loadCalls, fedUpdated, injectionType, inputUnits, lastValue>>
        /\ UNCHANGED <<dispatchVars, extVars>>
        /\ last' = Call("getValue", X, 0, FALSE, getValueResult(X), FALSE)
        /\ hasUpdate' = hasUpdate
        /\ UNCHANGED <<changeDetectionEnabled, delta, outputUnits, fedRaw, fedMode,
                       pubType, pubUnits, defaultValue>>

\* getValue<X>() that, with nothing to fetch, converts the stored value in place
GetValueStoresConverted(X) ==
    LET fetch == fedIsUpdated \/ allowDirectFederateUpdate
        out == extractRaw(fedRaw, loadedType, loadedUnits, outputUnits, X)
    IN  /\ IF fetch
           THEN /\ fedUpdated' = FALSE
                /\ injectionType' = loadedType
                /\ loadCalls' = loadCallsAfter
                /\ inputUnits' = loadedUnits
                /\ lastValue' = getValueStore(lastValue, out, changeDetectionEnabled, delta)
           ELSE /\ lastValue' = valueExtract(lastValue, X)
                /\ UNCHANGED <<loadCalls, fedUpdated, injectionType, inputUnits>>
        /\ UNCHANGED <<dispatchVars, extVars>>
        /\ last' = Call("getValue", X, 0, FALSE, getValueResult(X), FALSE)
        /\ hasUpdate' = FALSE
        /\ UNCHANGED <<changeDetectionEnabled, delta, outputUnits, fedRaw, fedMode,
                       pubType, pubUnits, defaultValue>>

\* Input::getValue<X>(), X a primary type (make_valid leaves a double and an
\* int64_t as they are)
GetValue(X) ==
    LET fetch == fedIsUpdated \/ allowDirectFederateUpdate
        out == extractRaw(fedRaw, loadedType, loadedUnits, outputUnits, X)
    IN  /\ IF fetch
           THEN /\ fedUpdated' = FALSE
                /\ injectionType' = loadedType
                /\ loadCalls' = loadCallsAfter
                /\ inputUnits' = loadedUnits
                /\ lastValue' = getValueStore(lastValue, out, changeDetectionEnabled, delta)
           ELSE UNCHANGED <<loadCalls, fedUpdated, injectionType, inputUnits, lastValue>>
        /\ UNCHANGED <<dispatchVars, extVars>>
        /\ last' = Call("getValue", X, 0, FALSE, getValueResult(X), FALSE)
        /\ hasUpdate' = FALSE
        /\ UNCHANGED <<changeDetectionEnabled, delta, outputUnits, fedRaw, fedMode,
                       pubType, pubUnits, defaultValue>>

\* what getValueRef<X>() returns, and leaves stored, in the current state
getValueRefResult(X) ==
    LET fetch == fedIsUpdated \/ allowDirectFederateUpdate
        out == extractRaw(fedRaw, loadedType, loadedUnits, outputUnits, X)
        direct == DV(loadedType, fedRaw.val)
        stored == IF fetch
                  THEN getValueRefStore(lastValue, out, direct, changeDetectionEnabled, delta)
                  ELSE lastValue
    IN  getValueRefImpl(stored, X)

\* getValueRef<X>() that clears the flag as getValue does
GetValueRefClearsFlag(X) ==
    LET fetch == fedIsUpdated \/ allowDirectFederateUpdate
    IN  /\ IF fetch
           THEN /\ fedUpdated' = FALSE
                /\ injectionType' = loadedType
                /\ loadCalls' = loadCallsAfter
                /\ inputUnits' = loadedUnits
           ELSE UNCHANGED <<loadCalls, fedUpdated, injectionType, inputUnits>>
        /\ lastValue' = getValueRefResult(X)
        /\ UNCHANGED <<dispatchVars, extVars>>
        /\ last' = Call("getValueRef", X, 0, FALSE, getValueRefResult(X), FALSE)
        /\ hasUpdate' = FALSE
        /\ UNCHANGED <<changeDetectionEnabled, delta, outputUnits, fedRaw,
                       fedMode, pubType, pubUnits, defaultValue>>

\* Input::getValueRef<X>(), X a primary type
GetValueRef(X) ==
    LET fetch == fedIsUpdated \/ allowDirectFederateUpdate
    IN  /\ IF fetch
           THEN /\ fedUpdated' = FALSE
                /\ injectionType' = loadedType
                /\ loadCalls' = loadCallsAfter
                /\ inputUnits' = loadedUnits
           ELSE UNCHANGED <<loadCalls, fedUpdated, injectionType, inputUnits>>
        /\ lastValue' = getValueRefResult(X)
        /\ UNCHANGED <<dispatchVars, extVars>>
        /\ last' = Call("getValueRef", X, 0, FALSE, getValueRefResult(X), FALSE)
        /\ UNCHANGED <<changeDetectionEnabled, hasUpdate, delta, outputUnits, fedRaw,
                       fedMode, pubType, pubUnits, defaultValue>>

\* checkUpdate that reports every pending buffer, detection or not
checkUpdateFlagNoDetection(hu, cde, pending, changed) == hu \/ pending

\* the flag checkUpdate leaves in hasUpdate (and returns)
checkUpdateFlag(hu, cde, pending, changed) ==
    IF cde THEN hu \/ (pending /\ changed)
    ELSE hu \/ pending

\* Input::checkUpdate(assumeUpdate): with change detection the pending
\* buffer is fetched and loaded into lastValue when it differs enough;
\* assumeUpdate says a buffer was delivered, so one must exist
CheckUpdate(assumeUpdate) ==
    LET pending == assumeUpdate \/ fedIsUpdated
        changed == changeDetected(lastValue, candidate, delta)
        flag == checkUpdateFlag(hasUpdate, changeDetectionEnabled, pending, changed)
    IN  /\ assumeUpdate => rawValid
        /\ IF changeDetectionEnabled /\ pending
           THEN /\ fedUpdated' = FALSE
                /\ injectionType' = loadedType
                /\ loadCalls' = loadCallsAfter
                /\ inputUnits' = loadedUnits
                /\ lastValue' = IF changed THEN candidate ELSE lastValue
           ELSE UNCHANGED <<loadCalls, fedUpdated, injectionType, inputUnits, lastValue>>
        /\ hasUpdate' = flag
        /\ UNCHANGED <<dispatchVars, extVars>>
        /\ last' = Call("checkUpdate", "", 0, assumeUpdate, NoValue, flag)
        /\ UNCHANGED <<changeDetectionEnabled, delta, outputUnits, fedRaw, fedMode,
                       pubType, pubUnits, defaultValue>>

\* clearUpdate that leaves the federate's flag for the input set
ClearUpdateInputOnly ==
    /\ hasUpdate' = FALSE
    /\ UNCHANGED auxVars
    /\ last' = Call("clearUpdate", "", 0, FALSE, NoValue, FALSE)
    /\ UNCHANGED <<lastValue, changeDetectionEnabled, delta, injectionType, inputUnits,
                   outputUnits, fedVars, defaultValue>>

\* Input::clearUpdate(): the flag of the input and the federate's flag for it
ClearUpdate ==
    /\ hasUpdate' = FALSE
    /\ fedUpdated' = FALSE
    /\ UNCHANGED auxVars
    /\ last' = Call("clearUpdate", "", 0, FALSE, NoValue, FALSE)
    /\ UNCHANGED <<lastValue, changeDetectionEnabled, delta, injectionType, inputUnits,
                   outputUnits, fedRaw, fedMode, pubType, pubUnits, defaultValue>>

\* isUpdated() that runs checkUpdate() when the flag is not set
IsUpdatedByCheckUpdate ==
    LET changed == changeDetected(lastValue, candidate, delta)
        flag == checkUpdateFlag(hasUpdate, changeDetectionEnabled, fedIsUpdated, changed)
    IN  /\ IF ~hasUpdate /\ changeDetectionEnabled /\ fedIsUpdated
           THEN /\ fedUpdated' = FALSE
                /\ injectionType' = loadedType
                /\ loadCalls' = loadCallsAfter
                /\ inputUnits' = loadedUnits
                /\ lastValue' = IF changed THEN candidate ELSE lastValue
           ELSE UNCHANGED <<loadCalls, fedUpdated, injectionType, inputUnits, lastValue>>
        /\ hasUpdate' = flag
        /\ UNCHANGED <<dispatchVars, extVars>>
        /\ last' = Call("isUpdated", "", 0, FALSE, NoValue, flag)
        /\ UNCHANGED <<changeDetectionEnabled, delta, outputUnits, fedRaw, fedMode,
                       pubType, pubUnits, defaultValue>>

\* Input::isUpdated()
IsUpdated ==
    /\ UNCHANGED auxVars
    /\ last' = Call("isUpdated", "", 0, FALSE, NoValue, isUpdatedResult)
    /\ UNCHANGED <<inputVars, fedVars, defaultValue>>

\* Input::isUpdated() const
IsUpdatedConst ==
    /\ UNCHANGED auxVars
    /\ last' = Call("isUpdatedConst", "", 0, FALSE, NoValue, isUpdatedConstResult)
    /\ UNCHANGED <<inputVars, fedVars, defaultValue>>

Next ==
    \/ EnterInitializingMode
    \/ EnterExecutingMode
    \/ \E v \in ValsOf(pubType) : Publish(v)
    \/ \E X \in NumTypes : \E v \in ValsOf(X) : SetDefault(X, v)
    \/ \E d \in DeltaArgs : SetMinimumChange(d)
    \/ \E b \in BOOLEAN : EnableChangeDetection(b)
    \/ \E X \in NumTypes : GetValue(X)
    \/ \E X \in NumTypes : GetValueRef(X)
    \/ \E a \in BOOLEAN : CheckUpdate(a)
    \/ ClearUpdate
    \/ IsUpdated
    \/ IsUpdatedConst

Spec == Init /\ [][Next]_vars

\* ---------------------------------------------------------------- claims
\* the pending buffer as the last read decoded it: type last.X, units applied
vRead == extractRaw(fedRaw, injectionType, inputUnits, outputUnits, last.X)
\* a getValue that found a publication pending under change detection with a
\* delta >= 0, the publication within delta of the stored value
C1_Case ==
    /\ last.op = "getValue"
    /\ last.pre.fedUpdated
    /\ last.pre.cde
    /\ last.pre.delta >= 0
    /\ Abs(Halves(vRead) - Halves(last.pre.lastValue)) <= last.pre.delta

\* C1 as stated: a pending publication within delta of the stored value p,
\* whatever the type of p, leaves p stored and the read returns p (values
\* compared as numbers, so that a change of the stored type alone does not
\* count as a change of p)
C1_Original ==
    C1_Case => /\ Halves(lastValue) = Halves(last.pre.lastValue)
               /\ last.ret = valueExtract(last.pre.lastValue, last.X)

\* C1: with change detection enabled and delta d >= 0, a getValue<X> that
\* finds a publication v pending with |v - p| <= d, p the stored value of
\* type X, leaves p stored and returns p
C1_WithinDeltaKeepsStored ==
    (C1_Case /\ last.pre.lastValue.tag = last.X)
        => /\ lastValue = last.pre.lastValue
           /\ last.ret = last.pre.lastValue

\* a different value of the stored type, within a positive delta, was filtered
C1_Witness ==
    /\ C1_Case
    /\ last.pre.lastValue.tag = last.X
    /\ vRead # last.pre.lastValue
    /\ last.pre.delta > 0

\* C2: with change detection disabled, a getValue<X> after a publication
\* stores the published value converted to X (units applied) and returns it,
\* whatever was stored before
C2_DisabledStoresPublication ==
    (last.op = "getValue" /\ last.pre.fedUpdated /\ ~last.pre.cde)
        => /\ lastValue = vRead
           /\ last.ret = vRead
           /\ (pubType = last.X /\ (inputUnits = "" \/ outputUnits = ""))
                  => lastValue = fedRaw
           /\ (pubType = last.X /\ inputUnits = "m" /\ outputUnits = "hm")
                  => lastValue = DV(pubType, 2 * fedRaw.val)

\* a publication of another type, with units converted, replaced the stored value
C2_Witness ==
    /\ last.op = "getValue"
    /\ last.pre.fedUpdated
    /\ ~last.pre.cde
    /\ inputUnits = "m" /\ outputUnits = "hm"
    /\ lastValue # last.pre.lastValue
    /\ lastValue.tag # fedRaw.tag

\* C3 as stated: setMinimumChange(d) with d >= 0 always leaves detection
\* enabled; with d < 0 it leaves it disabled and no delta >= 0 stored
C3_Original ==
    last.op = "setMinimumChange"
        => /\ last.d >= 0 => changeDetectionEnabled
           /\ last.d < 0 => (~changeDetectionEnabled /\ delta < 0)

\* C3: setMinimumChange(d) stores d; with d >= 0 detection is enabled
\* afterwards exactly when it was enabled before or the previous delta was
\* negative; with d < 0 it is disabled and no delta >= 0 stays stored
C3_SetMinimumChange ==
    last.op = "setMinimumChange"
        => /\ delta = last.d
           /\ last.d >= 0 =>
                  (changeDetectionEnabled <=> (last.pre.cde \/ last.pre.delta < 0))
           /\ last.d < 0 => (~changeDetectionEnabled /\ delta < 0)

\* a delta >= 0 given after enableChangeDetection(false) left detection disabled
C3_Witness ==
    /\ last.op = "setMinimumChange"
    /\ last.d >= 0
    /\ ~last.pre.cde
    /\ last.pre.delta >= 0
    /\ ~changeDetectionEnabled

\* C4: enableChangeDetection(flag) sets the flag and changes nothing else
C4_EnableChangeDetectionFrame ==
    last.op = "enableChangeDetection"
        => /\ changeDetectionEnabled = last.b
           /\ delta = last.pre.delta
           /\ lastValue = last.pre.lastValue
           /\ hasUpdate = last.pre.hasUpdate
           /\ injectionType = last.pre.injectionType
           /\ inputUnits = last.pre.inputUnits
           /\ fedUpdated = last.pre.fedUpdated
           /\ fedRaw = last.pre.fedRaw
           /\ fedMode = last.pre.fedMode

\* detection switched off with a delta >= 0 stored and has-update set
C4_Witness ==
    /\ last.op = "enableChangeDetection"
    /\ ~last.b
    /\ last.pre.cde
    /\ delta >= 0
    /\ hasUpdate

\* C5 as stated: detection enabled implies delta >= 0
C5_EnabledImpliesDelta == changeDetectionEnabled => delta >= 0

\* C6 as stated: with change detection disabled isUpdated() is true after a
\* publication, false after clearUpdate(), and once false it stays false
\* until the next publication arrives
C6_Original ==
    ~changeDetectionEnabled
        => /\ last.op = "publish" => isUpdatedResult
           /\ last.op = "clearUpdate" => ~isUpdatedResult
           /\ (~last.pre.cde /\ ~last.pre.isUpdated /\ last.op # "publish")
                  => ~isUpdatedResult

\* C6: with change detection disabled isUpdated() is true after a
\* publication, false after clearUpdate(), and once false it stays false
\* until the next publication arrives or checkUpdate(true) is called
C6_IsUpdatedDisabled ==
    ~changeDetectionEnabled
        => /\ last.op = "publish" => isUpdatedResult
           /\ last.op = "clearUpdate" => ~isUpdatedResult
           /\ (/\ ~last.pre.cde
               /\ ~last.pre.isUpdated
               /\ last.op # "publish"
               /\ ~(last.op = "checkUpdate" /\ last.b))
                  => ~isUpdatedResult

\* clearUpdate made isUpdated() false while a publication was pending
C6_Witness ==
    /\ ~changeDetectionEnabled
    /\ last.op = "clearUpdate"
    /\ last.pre.isUpdated
    /\ last.pre.fedUpdated
    /\ ~last.pre.hasUpdate
    /\ ~isUpdatedResult

\* the pending buffer as the last checkUpdate decoded it: the type of the
\* stored value, units applied
vChecked == extractRaw(fedRaw, injectionType, inputUnits, outputUnits,
                       last.pre.lastValue.tag)
\* a checkUpdate that found a publication pending under change detection
\* with a delta >= 0
C7_Case ==
    /\ last.op = "checkUpdate"
    /\ last.pre.fedUpdated
    /\ last.pre.cde
    /\ last.pre.delta >= 0
C7_Within == Abs(Halves(vChecked) - Halves(last.pre.lastValue)) <= last.pre.delta

C7_WitnessStored ==
    /\ C7_Case
    /\ ~C7_Within
    /\ last.retB
    /\ lastValue # last.pre.lastValue

C9_Case ==
    /\ defaultValue # NoValue
    /\ last.op \in {"getValue", "getValueRef"}

\* C9 as stated: every such read returns the default converted to the type
\* read
C9_Original == C9_Case => last.ret = valueExtract(defaultValue, last.X)

\* C9: after setDefault(value) and before any publication arrives, a read
\* returns the default converted to the type read as long as the stored
\* value is still the installed one; getValue leaves it stored, and
\* getValueRef<T> leaves it stored converted to T
C9_DefaultRead ==
    (C9_Case /\ last.pre.lastValue = defaultValue /\ ~last.pre.hasUpdate)
        => /\ last.ret = valueExtract(defaultValue, last.X)
           /\ last.op = "getValue" => lastValue = defaultValue
           /\ last.op = "getValueRef" => lastValue = valueExtract(defaultValue, last.X)

\* a getValueRef of another type returned the default narrowed
C9_Witness ==
    /\ C9_Case
    /\ last.pre.lastValue = defaultValue
    /\ last.op = "getValueRef"
    /\ last.ret # defaultValue
    /\ Halves(last.ret) # Halves(defaultValue)

\* C10 as stated: setDefault after the federate has begun execution raises
\* an error and leaves the stored value as it was
C10_SetDefaultLifecycle ==
    (last.op = "setDefault" /\ last.pre.fedMode = "executing")
        => /\ last.error
           /\ lastValue = last.pre.lastValue

\* C18 as stated: in every state, pending publication or not, getValue<T>()
\* and getValueRef<T>() return the same value for every primary type T
C18_RefEqualsValue ==
    \A X \in NumTypes : getValueResult(X) = getValueRefResult(X)

\* ------------------------------------------------ convertible integer reads
\* the narrower integer types a read converts to (convertibleType)
NarrowTypes == {"int8_t", "uint8_t", "int16_t"}

TypeBits(X) == IF X = "int16_t" THEN 16 ELSE 8

TypeSigned(X) == X # "uint8_t"

RECURSIVE Pow2(_)
Pow2(n) == IF n = 0 THEN 1 ELSE 2 * Pow2(n - 1)

TypeMin(X) == IF TypeSigned(X) THEN -Pow2(TypeBits(X) - 1) ELSE 0

TypeMax(X) == IF TypeSigned(X) THEN Pow2(TypeBits(X) - 1) - 1 ELSE Pow2(TypeBits(X)) - 1

\* how far from a limit of a narrow type the stored 64-bit integers go
NearK == 2

CastEdges == {0} \cup {TypeMin(X) : X \in NarrowTypes} \cup {TypeMax(X) : X \in NarrowTypes}

CastInts == {e + k : e \in CastEdges, k \in (-NearK)..NearK}

\* static_cast<X>(gval), gval an int64_t: the value modulo 2^w, read in X
staticCast(g, X) ==
    LET m == Pow2(TypeBits(X))
        r == g % m
    IN  IF TypeSigned(X) /\ r >= m \div 2 THEN r - m ELSE r

\* Input::getValue<X>(), X a convertible integer type: the primary read as
\* int64_t, then the cast
GetValueConvertible(X) ==
    LET fetch == fedIsUpdated \/ allowDirectFederateUpdate
        out == extractRaw(fedRaw, loadedType, loadedUnits, outputUnits, "int")
        gval == getValueResult("int")
    IN  /\ IF fetch
           THEN /\ fedUpdated' = FALSE
                /\ injectionType' = loadedType
                /\ loadCalls' = loadCallsAfter
                /\ inputUnits' = loadedUnits
                /\ lastValue' = getValueStore(lastValue, out, changeDetectionEnabled, delta)
           ELSE UNCHANGED <<loadCalls, fedUpdated, injectionType, inputUnits, lastValue>>
        /\ UNCHANGED <<dispatchVars, extVars>>
        /\ last' = Call("getValueConvertible", X, gval.val, FALSE,
                        DV("int", staticCast(gval.val, X)), FALSE)
        /\ hasUpdate' = FALSE
        /\ UNCHANGED <<changeDetectionEnabled, delta, outputUnits, fedRaw, fedMode,
                       pubType, pubUnits, defaultValue>>

CastInit == Constructed /\ outputUnits = "" /\ pubType = "int" /\ pubUnits = ""

CastNext ==
    \/ \E n \in CastInts : SetDefault("int", n)
    \/ \E X \in NarrowTypes : GetValueConvertible(X)

SpecCast == CastInit /\ [][CastNext]_vars

Saturate(g, X) ==
    IF g > TypeMax(X) THEN TypeMax(X) ELSE IF g < TypeMin(X) THEN TypeMin(X) ELSE g

\* C19 as stated: getValue<X> into a narrower integer type X saturates, a
\* stored integer above X's maximum reads as the maximum and one below X's
\* minimum as the minimum
C19_Saturates ==
    (last.op = "getValueConvertible" /\ last.pre.lastValue.tag = "int")
        => last.ret.val = Saturate(last.pre.lastValue.val, last.X)

\* what the cast does instead: it agrees with the stored integer modulo 2^w
C19_Wraps ==
    (last.op = "getValueConvertible" /\ last.pre.lastValue.tag = "int")
        => /\ last.ret.val \in TypeMin(last.X)..TypeMax(last.X)
           /\ (last.ret.val - last.pre.lastValue.val) % Pow2(TypeBits(last.X)) = 0

\* ------------------------------------------------ named points and strings
\* names of named points, and the strings a string value takes
Names == {"a", "b"}

\* a named point: a name and a double (in halves)
NamedPoints == [name : Names, value : 0..1]

\* the text of a double counted in halves
DoubleString(h) == ToString(h \div 2) \o (IF h % 2 = 0 THEN ".0" ELSE ".5")

\* valueConvert(val, data_type::helics_string): val converted to a string
valueConvertString(v) ==
    IF v.tag = "string" THEN v
    ELSE IF v.tag = "named_point" THEN DV("string", v.val.name)
    ELSE IF v.tag = "int" THEN DV("string", ToString(v.val))
    ELSE DV("string", DoubleString(v.val))

\* changeDetected(prevValue, const std::string& val, deltaV)
changeDetectedString(p, s) == IF p.tag = "string" THEN p.val # s.val ELSE TRUE

\* getValueRefImpl<std::string> without the named point case: the generic
\* conversion in place
getValueRefImplStringConvert(v) == valueConvertString(v)

\* getValueRefImpl<std::string>(defV&): what it leaves in the stored value
getValueRefImplStringStore(v) ==
    IF v.tag = "named_point" THEN v ELSE valueConvertString(v)

\* getValueRefImpl<std::string>(defV&): the string the returned reference
\* points at
getValueRefImplStringRet(v) ==
    IF v.tag = "named_point" THEN DV("string", v.val.name)
    ELSE valueConvertString(v)

\* the value getValueRef<std::string>() hands to getValueRefImpl in the
\* current state
refStoredString ==
    LET fetch == fedIsUpdated \/ allowDirectFederateUpdate
        direct == DV(loadedType, fedRaw.val)
        val == IF loadedType = "double"
               THEN doubleExtractAndConvert(fedRaw, loadedUnits, outputUnits)
               ELSE IF loadedType = "int"
               THEN integerExtractAndConvert(fedRaw, loadedUnits, outputUnits)
               ELSE direct
        out == valueConvertString(val)
    IN  IF ~fetch THEN lastValue
        ELSE IF ~changeDetectionEnabled THEN direct
        ELSE IF changeDetectedString(lastValue, out) THEN out
        ELSE lastValue

\* Input::getValueRef<std::string>()
GetValueRefString ==
    LET fetch == fedIsUpdated \/ allowDirectFederateUpdate
    IN  /\ IF fetch
           THEN /\ fedUpdated' = FALSE
                /\ injectionType' = loadedType
                /\ loadCalls' = loadCallsAfter
                /\ inputUnits' = loadedUnits
           ELSE UNCHANGED <<loadCalls, fedUpdated, injectionType, inputUnits>>
        /\ lastValue' = getValueRefImplStringStore(refStoredString)
        /\ UNCHANGED <<dispatchVars, extVars>>
        /\ last' = Call("getValueRefString", "string", 0, FALSE,
                        getValueRefImplStringRet(refStoredString), FALSE)
        /\ UNCHANGED <<changeDetectionEnabled, hasUpdate, delta, outputUnits, fedRaw,
                       fedMode, pubType, pubUnits, defaultValue>>

NPInit == Constructed /\ outputUnits = "" /\ pubType = "named_point" /\ pubUnits = ""

NPNext ==
    \/ EnterInitializingMode
    \/ EnterExecutingMode
    \/ \E v \in NamedPoints : Publish(v)
    \/ \E v \in NamedPoints : SetDefault("named_point", v)
    \/ \E s \in Names : SetDefault("string", s)
    \/ \E h \in DoubleVals : SetDefault("double", h)
    \/ \E b \in BOOLEAN : CheckUpdate(b)
    \/ ClearUpdate
    \/ GetValueRefString

SpecNP == NPInit /\ [][NPNext]_vars

\* C20: when getValueRef<std::string>() converts a stored named point, the
\* string it returns is the name field of the named point and the stored
\* value is left as it was, a named point
C20_NamedPointAsString ==
    [][(last'.op = "getValueRefString" /\ last'.pre = Pre
            /\ refStoredString.tag = "named_point")
        => /\ last'.ret = DV("string", refStoredString.val.name)
           /\ lastValue' = refStoredString]_vars

\* a named point was stored, read as a string by reference, and is still there
C20_Witness ==
    /\ last.op = "getValueRefString"
    /\ last.pre.lastValue.tag = "named_point"
    /\ last.pre.lastValue.val.value = 1
    /\ lastValue = last.pre.lastValue
    /\ last.ret = DV("string", lastValue.val.name)

\* the same after a publication of a named point was fetched by the read
C20_WitnessFetched ==
    /\ last.op = "getValueRefString"
    /\ last.pre.fedUpdated
    /\ last.pre.lastValue.tag = "string"
    /\ lastValue.tag = "named_point"
    /\ last.ret = DV("string", lastValue.val.name)

\* ------------------------------------------------ callbacks and the cycle
\* the last time the federate is granted
MaxTime == 2

\* the most raw buffers that arrive for the input in one cycle
MaxBufs == 2

\* the sequences of at most MaxBufs values of a publication of type t
BufSeqs(t) == UNION {[1..n -> ValsOf(t)] : n \in 0..MaxBufs}

\* fed->setInputNotificationCallback(inp, callback): the federate keeps one
\* callback for a handle, the one set last
fedSetInputNotificationCallback(held, callback) == callback

\* setInputNotificationCallback that keeps a typed callback already held
valueCallbackKeepFirst(held, X) == IF held = "none" THEN X ELSE held

\* value_callback = std::move(callback)
valueCallbackAssign(held, X) == X

\* Input::registerNotificationCallback(callback)
RegisterNotificationCallback ==
    /\ fedCallback' = fedSetInputNotificationCallback(fedCallback, "notify")
    /\ registered' = [registered EXCEPT !.notify = TRUE]
    /\ UNCHANGED <<inputVars, fedVars, defaultValue, value_callback, invoked, arrived,
                   time, closed, atClose, phase, registry, extVars, loadCalls>>
    /\ last' = Call("registerNotificationCallback", "", 0, FALSE, NoValue, FALSE)

\* Input::setInputNotificationCallback<X>(callback)
SetInputNotificationCallback(X) ==
    /\ value_callback' = valueCallbackAssign(value_callback, X)
    /\ fedCallback' = fedSetInputNotificationCallback(fedCallback, "typed")
    /\ registered' = [registered EXCEPT !.typed = X,
                                        !.replaced = @ \/ registered.typed \notin {"none", X}]
    /\ UNCHANGED <<inputVars, fedVars, defaultValue, invoked, arrived, time, closed, atClose,
                   phase, registry, extVars, loadCalls>>
    /\ last' = Call("setInputNotificationCallback", X, 0, FALSE, NoValue, FALSE)

\* the most close() calls followed
MaxCloses == 2

\* what the first close found: the stored value, and whether an update was
\* still unread
closeRecord ==
    [n |-> atClose.n + 1,
     value |-> IF atClose.n = 0 THEN lastValue ELSE atClose.value,
     pending |-> IF atClose.n = 0 THEN fedIsUpdated \/ hasUpdate ELSE atClose.pending]

\* a close() after which the federate goes on delivering to the input
CloseStillDelivering ==
    /\ atClose.n < MaxCloses
    /\ closed' = closed
    /\ atClose' = closeRecord
    /\ UNCHANGED <<inputVars, fedVars, defaultValue, value_callback, fedCallback,
                   registered, invoked, arrived, time, phase, registry, extVars, loadCalls>>
    /\ last' = Call("close", "", 0, FALSE, NoValue, FALSE)

\* Input::close(): fed->closeInterface(handle)
Close ==
    /\ atClose.n < MaxCloses
    /\ closed' = TRUE
    /\ atClose' = closeRecord
    /\ UNCHANGED <<inputVars, fedVars, defaultValue, value_callback, fedCallback,
                   registered, invoked, arrived, time, phase, registry, extVars, loadCalls>>
    /\ last' = Call("close", "", 0, FALSE, NoValue, FALSE)

\* a cycle in which the first buffer of an input is the one kept
firstBuffer(bufs) == bufs[1]

\* the raw buffer of an input after a cycle: the one that arrived last
lastBuffer(bufs) == bufs[Len(bufs)]

\* the federate is granted the next time: the publications bufs of the cycle
\* reach an open input, the last one is its raw buffer, and the registry
\* scans the input (decode, unit bridge, change detection, store)
RequestTime(bufs) ==
    LET delivered == IF closed THEN <<>> ELSE bufs
        raw == DV(pubType, lastBuffer(delivered))
        cand == extractRaw(raw, loadedType, loadedUnits, outputUnits, lastValue.tag)
        changed == changeDetected(lastValue, cand, delta)
    IN  /\ fedMode = "executing"
        /\ time < MaxTime
        /\ time' = time + 1
        /\ arrived' = bufs
        /\ invoked' = <<>>
        /\ IF delivered = <<>>
           THEN UNCHANGED <<inputVars, fedUpdated, fedRaw, defaultValue, phase, loadCalls>>
           ELSE /\ fedRaw' = raw
                /\ defaultValue' = NoValue
                /\ phase' = "dispatch"
                /\ hasUpdate' = checkUpdateFlag(hasUpdate, changeDetectionEnabled, TRUE, changed)
                /\ IF changeDetectionEnabled
                   THEN /\ fedUpdated' = FALSE
                        /\ injectionType' = loadedType
                        /\ loadCalls' = loadCallsAfter
                        /\ inputUnits' = loadedUnits
                        /\ lastValue' = IF changed THEN cand ELSE lastValue
                   ELSE /\ fedUpdated' = TRUE
                        /\ UNCHANGED <<loadCalls, injectionType, inputUnits, lastValue>>
                /\ UNCHANGED <<changeDetectionEnabled, delta, outputUnits>>
        /\ UNCHANGED <<fedMode, pubType, pubUnits, value_callback, fedCallback, registered,
                       closed, atClose, registry, extVars>>
        /\ last' = Call("requestTime", "", 0, FALSE, NoValue, FALSE)

\* the wrapper of registerNotificationCallback without its isUpdated() test
notificationWrapperUnguarded(t) == <<[kind |-> "notify", X |-> "", val |-> NoValue, time |-> t]>>

\* the wrapper registerNotificationCallback hands to the federate, called
\* with time t: the application callbacks it runs
notificationWrapper(t) ==
    IF isUpdatedResult
    THEN <<[kind |-> "notify", X |-> "", val |-> NoValue, time |-> t]>>
    ELSE <<>>

\* a typed callback is dispatched when the update is observable
typedObservable == isUpdatedResult

\* handleCallback that hands over the stored value without reading the input
handleCallbackNoRead(t) ==
    <<[kind |-> "typed", X |-> value_callback, val |-> valueExtract(lastValue, value_callback),
       time |-> t]>>

\* handleCallback(time): the application callback it runs, with the value
\* getValue<X> reads for it
handleCallback(t) ==
    <<[kind |-> "typed", X |-> value_callback, val |-> getValueResult(value_callback),
       time |-> t]>>

\* the dispatch of the scanned input: the federate calls the callback it
\* holds for the handle with the granted time
Dispatch ==
    LET fetch == fedIsUpdated \/ allowDirectFederateUpdate
        X == value_callback
        out == extractRaw(fedRaw, loadedType, loadedUnits, outputUnits, X)
    IN  /\ phase = "dispatch"
        /\ phase' = "idle"
        /\ IF fedCallback = "typed" /\ typedObservable
           THEN /\ invoked' = handleCallback(time)
                /\ IF fetch
                   THEN /\ fedUpdated' = FALSE
                        /\ injectionType' = loadedType
                        /\ loadCalls' = loadCallsAfter
                        /\ inputUnits' = loadedUnits
                        /\ lastValue' = getValueStore(lastValue, out, changeDetectionEnabled,
                                                      delta)
                   ELSE UNCHANGED <<loadCalls, fedUpdated, injectionType, inputUnits, lastValue>>
                /\ hasUpdate' = FALSE
           ELSE /\ invoked' = IF fedCallback = "notify" THEN notificationWrapper(time)
                              ELSE <<>>
                /\ UNCHANGED <<loadCalls, fedUpdated, injectionType, inputUnits, lastValue,
                               hasUpdate>>
        /\ UNCHANGED <<changeDetectionEnabled, delta, outputUnits, fedRaw, fedMode, pubType,
                       pubUnits, defaultValue, value_callback, fedCallback, registered,
                       arrived, time, closed, atClose, registry, extVars>>
        /\ last' = Call("dispatch", "", 0, FALSE, NoValue, FALSE)

CbIdle ==
    \/ EnterInitializingMode
    \/ EnterExecutingMode
    \/ \E bufs \in BufSeqs(pubType) : RequestTime(bufs)
    \/ \E d \in DeltaArgs : SetMinimumChange(d)
    \/ \E X \in NumTypes : GetValue(X)
    \/ RegisterNotificationCallback
    \/ \E X \in NumTypes : SetInputNotificationCallback(X)

CbNext ==
    \/ phase = "idle" /\ CbIdle
    \/ Dispatch

CbInit == Constructed /\ outputUnits = "hm" /\ pubType = "double" /\ pubUnits = "m"

SpecCb == CbInit /\ [][CbNext]_vars

\* ------------------------------------------------ claims on callbacks
\* C11: at a dispatch the notification callback runs only if isUpdated() was
\* true at that moment, and then it is handed the granted time
C11_NotificationGuard ==
    last.op = "dispatch" =>
        \A i \in 1..Len(invoked) :
            invoked[i].kind = "notify" => (last.pre.isUpdated /\ invoked[i].time = time)

\* a dispatch ran the notification callback of an updated input
C11_Witness ==
    /\ last.op = "dispatch"
    /\ last.pre.isUpdated
    /\ invoked = <<[kind |-> "notify", X |-> "", val |-> NoValue, time |-> time]>>

\* a dispatch reached the wrapper of an input without an observable update
\* and ran nothing
C11_WitnessSilent ==
    /\ last.op = "dispatch"
    /\ fedCallback = "notify"
    /\ ~last.pre.isUpdated
    /\ invoked = <<>>

\* C12 as stated: once a typed callback and a notification callback have both
\* been installed, in either order, a dispatch for an observable update runs
\* both, the typed callback first and the notification callback after it
C12_BothInvoked ==
    (/\ last.op = "dispatch"
     /\ registered.typed # "none"
     /\ registered.notify
     /\ last.pre.isUpdated)
        => /\ Len(invoked) = 2
           /\ invoked[1].kind = "typed"
           /\ invoked[2].kind = "notify"

\* what happens instead: a dispatch runs at most one application callback,
\* of the kind installed last
C12_OnlyLastInstalled ==
    last.op = "dispatch" =>
        /\ Len(invoked) <= 1
        /\ \A i \in 1..Len(invoked) : invoked[i].kind = fedCallback

\* the last publication of the cycle, with the unit conversion, read as type X
pubValue(X) ==
    extractRaw(DV(pubType, arrived[Len(arrived)]), pubType, pubUnits, outputUnits, X)

C14_OneTypedCallback ==
    /\ value_callback = registered.typed
    /\ last.op = "dispatch" =>
           /\ Len(invoked) <= 1
           /\ \A i \in 1..Len(invoked) :
                  invoked[i].kind = "typed" => invoked[i].X = registered.typed

\* a typed callback installed over one of another value type was run
C14_Witness ==
    /\ last.op = "dispatch"
    /\ registered.replaced
    /\ Len(invoked) = 1
    /\ invoked[1].kind = "typed"
    /\ invoked[1].X = registered.typed

CloseIdle ==
    \/ EnterInitializingMode
    \/ EnterExecutingMode
    \/ \E bufs \in BufSeqs(pubType) : RequestTime(bufs)
    \/ \E d \in DeltaArgs : SetMinimumChange(d)
    \/ \E X \in NumTypes : GetValue(X)
    \/ \E X \in NumTypes : GetValueRef(X)
    \/ CheckUpdate(FALSE)
    \/ Close

CloseNext ==
    \/ phase = "idle" /\ CloseIdle
    \/ Dispatch

CloseInit == Constructed /\ outputUnits = "" /\ pubType = "double" /\ pubUnits = ""

SpecClose == CloseInit /\ [][CloseNext]_vars

\* a close leaves the input and its raw buffer as they were, and after a
\* close a cycle with publications neither changes the stored value nor
\* sets has-update
closeStopsUpdates ==
    /\ last.op = "close" =>
           /\ lastValue = last.pre.lastValue
           /\ hasUpdate = last.pre.hasUpdate
           /\ fedRaw = last.pre.fedRaw
           /\ fedUpdated = last.pre.fedUpdated
    /\ (last.op = "requestTime" /\ atClose.n > 0) =>
           /\ lastValue = last.pre.lastValue
           /\ hasUpdate = last.pre.hasUpdate
           /\ fedRaw = last.pre.fedRaw
           /\ fedUpdated = last.pre.fedUpdated
           /\ phase = "idle"

Conversions(v) ==
    {v, valueExtract(v, "int"), valueExtract(v, "double"),
     valueExtract(valueExtract(v, "int"), "double")}

NumInputs == 3

Handles == 1..NumInputs

\* the elements of a sequence
Range(q) == {q[i] : i \in 1..Len(q)}

\* the place of handle h in sequence q
IndexOf(q, h) == CHOOSE i \in 1..Len(q) : q[i] = h

InSet(q, S) == LET in(x) == x \in S IN SelectSeq(q, in)

\* a registry that dispatches in the order the publications arrived
dispatchArrivalOrder(inputs, pending) == pending

\* the dispatch records of a cycle: the inputs with pending buffers, in the
\* order of their registration
dispatchOrder(inputs, pending) == InSet(inputs, Range(pending))

\* an input with a callback is registered, during startup
RegisterInput(h) ==
    /\ fedMode = "startup"
    /\ h \notin Range(registry.inputs)
    /\ registry' = [registry EXCEPT !.inputs = Append(@, h)]
    /\ UNCHANGED <<inputVars, fedVars, defaultValue, value_callback, fedCallback, registered,
                   invoked, arrived, time, closed, atClose, phase, extVars, loadCalls>>
    /\ last' = Call("registerInput", "", h, FALSE, NoValue, FALSE)

\* a publication for input h reaches the federate core during the cycle
Arrive(h) ==
    /\ fedMode = "executing"
    /\ h \in Range(registry.inputs)
    /\ h \notin Range(registry.pending)
    /\ registry' = [registry EXCEPT !.pending = Append(@, h)]
    /\ UNCHANGED <<inputVars, fedVars, defaultValue, value_callback, fedCallback, registered,
                   invoked, arrived, time, closed, atClose, phase, extVars, loadCalls>>
    /\ last' = Call("arrive", "", h, FALSE, NoValue, FALSE)

\* the time advance returns: the registry scans the handles with pending
\* buffers and then runs their callbacks
TimeAdvance ==
    /\ fedMode = "executing"
    /\ registry' = [registry EXCEPT !.pending = <<>>,
                                    !.scanned = registry.pending,
                                    !.fired = dispatchOrder(registry.inputs, registry.pending)]
    /\ UNCHANGED <<inputVars, fedVars, defaultValue, value_callback, fedCallback, registered,
                   invoked, arrived, time, closed, atClose, phase, extVars, loadCalls>>
    /\ last' = Call("timeAdvance", "", 0, FALSE, NoValue, FALSE)

RegNext ==
    \/ EnterInitializingMode
    \/ EnterExecutingMode
    \/ \E h \in Handles : RegisterInput(h)
    \/ \E h \in Handles : Arrive(h)
    \/ TimeAdvance

RegInit == Constructed /\ outputUnits = "" /\ pubType = "double" /\ pubUnits = ""

SpecReg == RegInit /\ [][RegNext]_vars

\* C16: the callbacks of a cycle are those of the inputs that got a
\* publication, each once, and they run in the order in which the inputs
\* were registered, whatever the order of arrival
C16_RegistrationOrder ==
    last.op = "timeAdvance" =>
        /\ Range(registry.fired) = Range(registry.scanned)
        /\ Len(registry.fired) = Len(registry.scanned)
        /\ \A i, j \in 1..Len(registry.fired) :
               i < j => IndexOf(registry.inputs, registry.fired[i])
                            < IndexOf(registry.inputs, registry.fired[j])

\* publications arrived against the registration order and the callbacks
\* ran in registration order
C16_Witness ==
    /\ last.op = "timeAdvance"
    /\ Len(registry.fired) = NumInputs
    /\ registry.fired = registry.inputs
    /\ registry.scanned # registry.inputs

\* ------------------------------------------------ claims on the has-update flag
\* C26: getValue of a primary type returns with has-update false, whether a
\* publication was pending or not and whether change detection took it or not
C26_GetValueClearsFlag ==
    last.op = "getValue" => ~hasUpdate

\* has-update was set, a publication was pending and change detection
\* rejected it: the read kept the stored value and cleared the flag
C26_Witness ==
    /\ last.op = "getValue"
    /\ last.pre.hasUpdate
    /\ last.pre.cde
    /\ last.pre.fedUpdated
    /\ lastValue = last.pre.lastValue
    /\ fedRaw.val # lastValue.val
    /\ ~hasUpdate

\* the injection type a read of the state before the last call works with
preLoadedType ==
    IF last.pre.injectionType = "unknown" THEN pubType ELSE last.pre.injectionType

\* C27: getValueRef leaves has-update as it was; with the flag set, change
\* detection disabled and nothing new reported by the federate, it decodes
\* the federate's raw buffer again
C27_GetValueRefKeepsFlag ==
    last.op = "getValueRef" =>
        /\ hasUpdate = last.pre.hasUpdate
        /\ (last.pre.hasUpdate /\ ~last.pre.cde /\ ~last.pre.fedUpdated)
               => lastValue = getValueRefImpl(DV(preLoadedType, last.pre.fedRaw.val), last.X)

\* a second read by reference decoded the raw buffer again: the stored value
\* had been converted in place and is replaced by the buffer's value
C27_Witness ==
    /\ last.op = "getValueRef"
    /\ last.pre.hasUpdate
    /\ hasUpdate
    /\ ~last.pre.cde
    /\ ~last.pre.fedUpdated
    /\ last.pre.lastValue.tag = "int"
    /\ last.X = "double"
    /\ lastValue = DV("double", last.pre.fedRaw.val)
    /\ lastValue # valueExtract(last.pre.lastValue, "double")

\* ------------------------------------------------ claims on the reads
\* the last call, a read, found something to fetch: the federate reported an
\* update or allowDirectFederateUpdate() held
preFetch ==
    \/ last.pre.fedUpdated
    \/ last.pre.hasUpdate /\ ~last.pre.cde /\ inputVectorOp = "no_op"

\* C25: loadSourceInformation is not called at construction; a read calls it
\* exactly when it has something to fetch and the injection type is still
\* unknown; once the type is known it is not called again
C25_LazySourceLoad ==
    /\ last.op = "construct" => (loadCalls = 0 /\ injectionType = "unknown")
    /\ last.op \in {"getValue", "getValueRef"} =>
           loadCalls - last.pre.loadCalls
               = IF preFetch /\ last.pre.injectionType = "unknown" THEN 1 ELSE 0
    /\ loadCalls <= 1
    /\ loadCalls = 0 <=> injectionType = "unknown"

\* a read fetched a publication with the injection type already known and
\* did not load the source information again
C25_Witness ==
    /\ last.op = "getValue"
    /\ last.pre.fedUpdated
    /\ last.pre.injectionType # "unknown"
    /\ last.pre.loadCalls = 1
    /\ loadCalls = 1

\* the first read of a pending publication loaded the source information
C25_WitnessFirstRead ==
    /\ last.op = "getValueRef"
    /\ last.pre.fedUpdated
    /\ last.pre.injectionType = "unknown"
    /\ last.pre.loadCalls = 0
    /\ loadCalls = 1
    /\ injectionType = pubType

\* a read with nothing to fetch left the source information unloaded
C25_WitnessNoFetch ==
    /\ last.op = "getValue"
    /\ ~preFetch
    /\ last.pre.fedMode = "executing"
    /\ loadCalls = 0

\* C29: with no update reported by the federate and has-update false,
\* getValue<T> returns the stored value converted to T and leaves the input
\* as it was, so a further read of any type finds the same stored value
C29_ReadIdempotent ==
    (last.op = "getValue" /\ ~last.pre.fedUpdated /\ ~last.pre.hasUpdate) =>
        /\ last.ret = valueExtract(last.pre.lastValue, last.X)
        /\ lastValue = last.pre.lastValue
        /\ ~fedUpdated /\ ~hasUpdate
        /\ \A Y \in NumTypes : getValueResult(Y) = valueExtract(last.pre.lastValue, Y)

\* a stored 1.5 was read as an integer with nothing pending: the read
\* returned 1 and the stored value is still the double 1.5
C29_Witness ==
    /\ last.op = "getValue"
    /\ ~last.pre.fedUpdated
    /\ ~last.pre.hasUpdate
    /\ last.X = "int"
    /\ last.pre.lastValue = DV("double", 3)
    /\ last.ret = DV("int", 1)
    /\ lastValue = DV("double", 3)

\* ------------------------------------------------ reads under a multi-input policy
\* the multi-input policies an input is configured with here
VectorOps == {"no_op", "sum_operation"}

\* Input::setOption for the multi-input handling method
SetMultiInputMode(op) ==
    /\ inputVectorOp' = op
    /\ UNCHANGED <<coreVars, multi, scan, msgFed, endpoint>>
    /\ last' = Call("setMultiInputMode", op, 0, FALSE, NoValue, FALSE)

OpNext ==
    \/ EnterInitializingMode
    \/ EnterExecutingMode
    \/ \E v \in ValsOf(pubType) : Publish(v)
    \/ \E d \in DeltaArgs : SetMinimumChange(d)
    \/ \E b \in BOOLEAN : CheckUpdate(b)
    \/ ClearUpdate
    \/ \E X \in NumTypes : GetValue(X)
    \/ \E X \in NumTypes : GetValueRef(X)
    \/ \E op \in VectorOps : SetMultiInputMode(op)

OpInit == Constructed /\ outputUnits = "" /\ pubType = "double" /\ pubUnits = ""

SpecOp == OpInit /\ [][OpNext]_vars

\* C28: a read decodes the raw buffer only if the federate reports the input
\* updated, or has-update is set with change detection disabled and the
\* policy no_op; otherwise the stored value is only converted, never
\* replaced by the buffer, and the federate's flag and the source
\* information are left alone
C28_FetchOnlyWhenAllowed ==
    (last.op \in {"getValue", "getValueRef"} /\ ~preFetch) =>
        /\ last.ret = valueExtract(last.pre.lastValue, last.X)
        /\ lastValue = IF last.op = "getValue" THEN last.pre.lastValue
                       ELSE getValueRefImpl(last.pre.lastValue, last.X)
        /\ fedUpdated = last.pre.fedUpdated
        /\ injectionType = last.pre.injectionType
        /\ loadCalls = last.pre.loadCalls

\* has-update was set under a multi-input policy, the buffer differed from
\* the stored value, and the read did not decode it
C28_Witness ==
    /\ last.op = "getValue"
    /\ last.pre.hasUpdate
    /\ ~last.pre.cde
    /\ inputVectorOp # "no_op"
    /\ ~last.pre.fedUpdated
    /\ last.pre.fedRaw.tag # "none"
    /\ last.pre.fedRaw.val # last.pre.lastValue.val
    /\ lastValue = last.pre.lastValue

\* the same with change detection enabled and the policy no_op
C28_WitnessDetection ==
    /\ last.op = "getValue"
    /\ last.pre.hasUpdate
    /\ last.pre.cde
    /\ inputVectorOp = "no_op"
    /\ ~last.pre.fedUpdated
    /\ last.pre.fedRaw.tag # "none"
    /\ Abs(last.pre.fedRaw.val - Halves(last.pre.lastValue)) > last.pre.delta
    /\ lastValue = last.pre.lastValue

\* ================================================================ Endpoint
\* An Endpoint (Endpoints.hpp) keeps a target destination and hands every send
\* to its federate; endpoint.sent is the sequence of the calls of
\* fed->sendMessage, endpoint.given the targets handed to setTargetDestination.
MaxSent == 2
MaxTargets == 2
Destinations == {"", "epA", "epB"}
Payloads == {1, 2}

\* fed->sendMessage (*this, dest, data [, sendTime])
sendMessage(dest, data, timed) ==
    [endpoint EXCEPT !.sent = Append(@, [dest |-> dest, data |-> data, timed |-> timed])]

\* a setter that keeps the first target given
setTargetDestinationKeepFirst(target) ==
    IF endpoint.targetDest = "" THEN [endpoint EXCEPT !.targetDest = target] ELSE endpoint

\* targetDest = target
setTargetDestination(target) == [endpoint EXCEPT !.targetDest = target]

\* Endpoint::setTargetDestination (const std::string &target)
SetTargetDestination(target) ==
    /\ Len(endpoint.given) < MaxTargets
    /\ endpoint' = [setTargetDestination(target) EXCEPT !.given = Append(@, target)]
    /\ UNCHANGED <<coreVars, inputVectorOp, multi, scan, msgFed>>
    /\ last' = Call("setTargetDestination", target, 0, FALSE, NoValue, FALSE)

\* Endpoint::send (data ...) and send (data ..., sendTime): the overloads
\* without a destination pass targetDest
SendTarget(data, timed) ==
    /\ Len(endpoint.sent) < MaxSent
    /\ endpoint' = sendMessage(endpoint.targetDest, data, timed)
    /\ UNCHANGED <<coreVars, inputVectorOp, multi, scan, msgFed>>
    /\ last' = Call("sendTarget", "", data, timed, NoValue, FALSE)

\* Endpoint::send (dest, data ...) and send (dest, data ..., sendTime)
SendDest(dest, data, timed) ==
    /\ Len(endpoint.sent) < MaxSent
    /\ endpoint' = sendMessage(dest, data, timed)
    /\ UNCHANGED <<coreVars, inputVectorOp, multi, scan, msgFed>>
    /\ last' = Call("sendDest", dest, data, timed, NoValue, FALSE)

EptNext ==
    \/ \E target \in Destinations : SetTargetDestination(target)
    \/ \E data \in Payloads, timed \in BOOLEAN : SendTarget(data, timed)
    \/ \E dest \in Destinations, data \in Payloads, timed \in BOOLEAN :
           SendDest(dest, data, timed)

EptInit ==
    /\ Constructed
    /\ outputUnits = ""
    /\ pubType = "double"
    /\ pubUnits = ""

SpecEpt == EptInit /\ [][EptNext]_vars

\* the target most recently given to setTargetDestination, "" if none was
mostRecentTarget ==
    IF endpoint.given = <<>> THEN "" ELSE endpoint.given[Len(endpoint.given)]

\* C30: a send that names no destination goes to the destination most recently
\* given to setTargetDestination (the empty string if none was given); a send
\* that names a destination goes to that destination whatever the stored target
\* is; and no send changes the stored target destination.
C30_SendDestination ==
    [][Len(endpoint'.sent) > Len(endpoint.sent) =>
          /\ endpoint'.targetDest = endpoint.targetDest
          /\ endpoint'.given = endpoint.given
          /\ Len(endpoint'.sent) = Len(endpoint.sent) + 1
          /\ SubSeq(endpoint'.sent, 1, Len(endpoint.sent)) = endpoint.sent
          /\ endpoint'.sent[Len(endpoint'.sent)].dest =
                 IF last'.op = "sendTarget" THEN mostRecentTarget ELSE last'.X]_vars

\* a send without a destination after two different targets were given
C30_Witness ==
    /\ last.op = "sendTarget"
    /\ Len(endpoint.given) = 2
    /\ endpoint.given[1] # endpoint.given[2]
    /\ endpoint.given[2] # ""
    /\ endpoint.sent[Len(endpoint.sent)].dest = endpoint.given[2]

\* a send without a destination on an endpoint that was never given a target
C30_WitnessNoTarget ==
    /\ last.op = "sendTarget"
    /\ endpoint.given = <<>>
    /\ endpoint.sent[Len(endpoint.sent)].dest = ""

\* a send that names a destination other than the stored target
C30_WitnessNamed ==
    /\ last.op = "sendDest"
    /\ endpoint.targetDest = "epA"
    /\ endpoint.sent[Len(endpoint.sent)].dest = "epB"

\* ================================================================ MessageFederate::getMessage ()
\* msgFed.pending[e] is the queue of the e-th created endpoint, a sequence of
\* arrival stamps; msgFed.arrivals counts the messages delivered so far and
\* msgFed.returned is what the last getMessage () returned (id 0: no message).
MaxEndpoints == 3
MaxArrivals == 4
NoMessage == [ept |-> 0, id |-> 0]

Endpoints == 1..Len(msgFed.pending)
hasPending == \E e \in Endpoints : msgFed.pending[e] # <<>>

\* the pending message that arrived first, whatever its endpoint
nextMessageByArrival ==
    LET e == CHOOSE x \in Endpoints :
                 /\ msgFed.pending[x] # <<>>
                 /\ \A y \in Endpoints :
                        msgFed.pending[y] # <<>> =>
                            Head(msgFed.pending[x]) <= Head(msgFed.pending[y])
    IN [ept |-> e, id |-> Head(msgFed.pending[e])]

\* "in order of endpoint creation then order of arrival": the head of the
\* queue of the first created endpoint that has a message
nextMessage ==
    LET e == CHOOSE x \in Endpoints :
                 /\ msgFed.pending[x] # <<>>
                 /\ \A y \in 1..(x - 1) : msgFed.pending[y] = <<>>
    IN [ept |-> e, id |-> Head(msgFed.pending[e])]

\* MessageFederate::registerEndpoint
RegisterEndpoint ==
    /\ Len(msgFed.pending) < MaxEndpoints
    /\ msgFed' = [msgFed EXCEPT !.pending = Append(@, <<>>)]
    /\ UNCHANGED <<coreVars, inputVectorOp, multi, scan, endpoint>>
    /\ last' = Call("registerEndpoint", "", 0, FALSE, NoValue, FALSE)

\* a message arrives for endpoint e
Deliver(e) ==
    /\ msgFed.arrivals < MaxArrivals
    /\ msgFed' = [msgFed EXCEPT !.arrivals = @ + 1,
                                !.pending[e] = Append(@, msgFed.arrivals + 1)]
    /\ UNCHANGED <<coreVars, inputVectorOp, multi, scan, endpoint>>
    /\ last' = Call("deliver", "", e, FALSE, NoValue, FALSE)

\* MessageFederate::getMessage (): the next message of any endpoint, an empty
\* one when nothing is pending
GetMessage ==
    /\ msgFed' = IF hasPending
                 THEN [msgFed EXCEPT !.returned = nextMessage,
                                     !.pending[nextMessage.ept] = Tail(@)]
                 ELSE [msgFed EXCEPT !.returned = NoMessage]
    /\ UNCHANGED <<coreVars, inputVectorOp, multi, scan, endpoint>>
    /\ last' = Call("getMessage", "", msgFed.arrivals, hasPending, NoValue, FALSE)

MsgNext ==
    \/ RegisterEndpoint
    \/ \E e \in Endpoints : Deliver(e)
    \/ GetMessage

MsgInit ==
    /\ Constructed
    /\ outputUnits = ""
    /\ pubType = "double"
    /\ pubUnits = ""

SpecMsg == MsgInit /\ [][MsgNext]_vars

\* the messages pending at endpoint e
pendingSet(e) == {msgFed.pending[e][i] : i \in 1..Len(msgFed.pending[e])}

\* C24: the message getMessage () returns was pending, no endpoint created
\* before its endpoint had a pending message, no pending message of its own
\* endpoint arrived before it, and it is the only message that leaves the
\* queues; with nothing pending the call returns no message.
C24_CreationThenArrival ==
    [][last'.op = "getMessage" /\ last' # last =>
          LET m == msgFed'.returned IN
          IF \A e \in Endpoints : msgFed.pending[e] = <<>>
          THEN m = NoMessage /\ msgFed'.pending = msgFed.pending
          ELSE /\ m.ept \in Endpoints
               /\ m.id \in pendingSet(m.ept)
               /\ \A e \in Endpoints : e < m.ept => msgFed.pending[e] = <<>>
               /\ \A i \in pendingSet(m.ept) : m.id <= i
               /\ \A e \in Endpoints :
                      msgFed'.pending[e] =
                          IF e = m.ept THEN Tail(msgFed.pending[e])
                          ELSE msgFed.pending[e]]_vars

\* getMessage () has returned a message of the first endpoint while a message
\* that arrived earlier is still pending at a later endpoint
C24_Witness ==
    /\ last.op = "getMessage"
    /\ msgFed.returned.ept = 1
    /\ \E e \in Endpoints :
           /\ e > 1
           /\ msgFed.pending[e] # <<>>
           /\ Head(msgFed.pending[e]) < msgFed.returned.id

\* two messages of one endpoint: the earlier one has come out, the later one
\* is still pending
C24_WitnessArrival ==
    /\ last.op = "getMessage"
    /\ msgFed.returned.ept = 2
    /\ msgFed.pending[2] # <<>>
    /\ msgFed.returned.id < Head(msgFed.pending[2])

\* ================================================================ multi-input reduction
\* multi.targets are the publications bound to the input, in the order
\* addTarget registered them; multi.arrival holds the publications of the
\* current cycle in the order they arrived, each [target, val].
NumTargets == 2
TargetNames == {"pubA", "pubB", "pubC"}
MultiOps == {"vectorize_operation", "and_operation", "or_operation"}
\* 1.0 and 2.0 in halves
VectorVals == {2, 4}

\* what a target may publish under the policy: booleans for and / or,
\* doubles otherwise
TargetVals ==
    IF inputVectorOp \in {"and_operation", "or_operation"}
    THEN {DV("bool", b) : b \in BOOLEAN}
    ELSE {DV("double", h) : h \in VectorVals}

publishedTargets == {multi.arrival[i].target : i \in 1..Len(multi.arrival)}
valueOf(t) == multi.arrival[CHOOSE i \in 1..Len(multi.arrival) : multi.arrival[i].target = t].val

\* the values of the cycle in the order they arrived
collectedValuesArrival == [i \in 1..Len(multi.arrival) |-> multi.arrival[i].val]

\* the values of the cycle in the registration order of their targets
collectedValues ==
    LET order == InSet(multi.targets, publishedTargets)
    IN  [i \in 1..Len(order) |-> valueOf(order[i])]

\* and_operation that is satisfied by one true value
andOperationAny(vals) == DV("bool", \E i \in 1..Len(vals) : vals[i].val)

andOperation(vals) == DV("bool", \A i \in 1..Len(vals) : vals[i].val)
orOperation(vals) == DV("bool", \E i \in 1..Len(vals) : vals[i].val)
vectorizeOperation(vals) == DV("vector", [i \in 1..Len(vals) |-> vals[i].val])

\* the reduction of the values of a cycle by the policy
reduce(op, vals) ==
    IF op = "and_operation" THEN andOperation(vals)
    ELSE IF op = "or_operation" THEN orOperation(vals)
    ELSE vectorizeOperation(vals)

\* the change detector on reduced values: booleans differ when unequal,
\* sequences when a length or an element differs by more than the delta
changeDetectedReduced(p, v, d) ==
    IF p.tag # v.tag THEN TRUE
    ELSE IF v.tag = "bool" THEN v.val # p.val
    ELSE IF v.tag = "vector"
         THEN \/ Len(v.val) # Len(p.val)
              \/ \E i \in 1..Len(v.val) : Abs(v.val[i] - p.val[i]) > d
    ELSE changeDetected(p, v, d)

\* Input::addTarget(newTarget)
AddTarget(t) ==
    /\ inputVectorOp # "no_op"
    /\ Len(multi.targets) < NumTargets
    /\ t \notin Range(multi.targets)
    /\ multi.arrival = <<>>
    /\ multi' = [multi EXCEPT !.targets = Append(@, t)]
    /\ UNCHANGED <<coreVars, inputVectorOp, scan, msgFed, endpoint>>
    /\ last' = Call("addTarget", t, 0, FALSE, NoValue, FALSE)

\* a bound publication publishes v in the current cycle
PublishTarget(t, v) ==
    /\ t \in Range(multi.targets)
    /\ t \notin publishedTargets
    /\ multi' = [multi EXCEPT !.arrival = Append(@, [target |-> t, val |-> v])]
    /\ UNCHANGED <<coreVars, inputVectorOp, scan, msgFed, endpoint>>
    /\ last' = Call("publishTarget", t, 0, FALSE, v, FALSE)

\* Input::vectorDataProcess(dataV) at the time-advance return: the values of
\* the cycle are reduced and the result is stored as one publication
VectorDataProcess ==
    LET result == reduce(inputVectorOp, collectedValues)
        changed == changeDetectedReduced(lastValue, result, delta)
        flag == checkUpdateFlag(hasUpdate, changeDetectionEnabled, TRUE, changed)
    IN  /\ multi.arrival # <<>>
        /\ lastValue' = IF changeDetectionEnabled /\ ~changed THEN lastValue ELSE result
        /\ hasUpdate' = flag
        /\ multi' = [multi EXCEPT !.arrival = <<>>]
        /\ UNCHANGED <<changeDetectionEnabled, delta, injectionType, inputUnits, outputUnits,
                       fedVars, defaultValue, dispatchVars, loadCalls, inputVectorOp, scan,
                       msgFed, endpoint, strVec>>
        /\ last' = Call("vectorDataProcess", "", 0, FALSE,
                        DV("reduced", [result |-> result, dataV |-> multi.arrival]), flag)

MultiNext ==
    \/ \E op \in MultiOps : multi.targets = <<>> /\ SetMultiInputMode(op)
    \/ \E d \in DeltaArgs : SetMinimumChange(d)
    \/ ClearUpdate
    \/ \E t \in TargetNames : AddTarget(t)
    \/ \E t \in TargetNames, v \in TargetVals : PublishTarget(t, v)
    \/ VectorDataProcess

MultiInit ==
    /\ Constructed
    /\ outputUnits = ""
    /\ pubType = "double"
    /\ pubUnits = ""

SpecMulti == MultiInit /\ [][MultiNext]_vars

\* the step in which the values of a cycle are reduced
reductionStep == multi.arrival # <<>> /\ multi'.arrival = <<>>

\* the place of target t among the targets that published, by registration
rankOf(t) ==
    Cardinality({u \in publishedTargets :
                     IndexOf(multi.targets, u) <= IndexOf(multi.targets, t)})

\* C21: under vectorize the reduced value is the sequence with one element per
\* publication of the cycle, the element of a target standing at the place its
\* target has in the registration order, whatever the arrival order was; with
\* change detection it replaces the stored value only when it differs by more
\* than the delta, without it always, and has-update is set as for a single
\* publication.
C21_VectorizeRegistrationOrder ==
    [][reductionStep /\ inputVectorOp = "vectorize_operation" =>
          LET result == last'.ret.val.result
              changed == changeDetectedReduced(lastValue, result, delta)
          IN  /\ result.tag = "vector"
              /\ Len(result.val) = Cardinality(publishedTargets)
              /\ \A t \in publishedTargets : result.val[rankOf(t)] = valueOf(t).val
              /\ lastValue' = IF changeDetectionEnabled /\ ~changed THEN lastValue
                              ELSE result
              /\ hasUpdate' = (hasUpdate \/ ~changeDetectionEnabled \/ changed)]_vars

\* two targets published 1.0 and 2.0 with the later registered one arriving
\* first: the stored value is [1.0, 2.0] in registration order
C21_Witness ==
    /\ last.op = "vectorDataProcess"
    /\ inputVectorOp = "vectorize_operation"
    /\ Len(multi.targets) = 2
    /\ Len(last.ret.val.dataV) = 2
    /\ last.ret.val.dataV[1] = [target |-> multi.targets[2], val |-> DV("double", 4)]
    /\ last.ret.val.dataV[2] = [target |-> multi.targets[1], val |-> DV("double", 2)]
    /\ lastValue = DV("vector", <<2, 4>>)
    /\ last.ret.val.result = lastValue
    /\ hasUpdate

\* under change detection a reduced value within the delta of the stored
\* sequence is dropped
C21_WitnessRetained ==
    /\ last.op = "vectorDataProcess"
    /\ inputVectorOp = "vectorize_operation"
    /\ changeDetectionEnabled
    /\ last.ret.val.result.tag = "vector"
    /\ lastValue.tag = "vector"
    /\ last.ret.val.result # lastValue
    /\ ~hasUpdate

\* C22: under and_operation over boolean publications the reduced value of a
\* cycle is the boolean true exactly when every publication of the cycle
\* carried true.
C22_AndReduction ==
    [][reductionStep /\ inputVectorOp = "and_operation" =>
          /\ last'.ret.val.result.tag = "bool"
          /\ last'.ret.val.result.val =
                 (\A i \in 1..Len(multi.arrival) : multi.arrival[i].val = DV("bool", TRUE))]_vars

\* two targets, true and false: reduced false
C22_Witness ==
    /\ last.op = "vectorDataProcess"
    /\ inputVectorOp = "and_operation"
    /\ Len(last.ret.val.dataV) = 2
    /\ last.ret.val.dataV[1].val = DV("bool", TRUE)
    /\ last.ret.val.result = DV("bool", FALSE)
    /\ lastValue = DV("bool", FALSE)

\* two targets, true and true: reduced true
C22_WitnessTrue ==
    /\ last.op = "vectorDataProcess"
    /\ inputVectorOp = "and_operation"
    /\ Len(last.ret.val.dataV) = 2
    /\ last.ret.val.result = DV("bool", TRUE)
    /\ lastValue = DV("bool", TRUE)

\* ================================================================ decode errors in the scan
\* scan[i] is the i-th registered input of the federate as the registry sees
\* it: raw is the pending buffer of the cycle (NoBuffer when none), ok whether
\* it decodes under the injection type, val what it decodes to; error is the
\* decode error recorded for the input until its next read.
NumScanInputs == 2
ScanVals == {2}
NoBuffer == [pending |-> FALSE, ok |-> TRUE, val |-> 0]
Buffers == [pending : {TRUE}, ok : {TRUE}, val : ScanVals] \cup
           {[pending |-> TRUE, ok |-> FALSE, val |-> 0]}

\* step 3 of the scan for one input: decode, change detection, store; a
\* buffer that does not decode leaves value and flag alone and is recorded
scanInput(in) ==
    IF ~in.raw.pending THEN in
    ELSE IF ~in.raw.ok THEN [in EXCEPT !.raw = NoBuffer, !.error = TRUE]
    ELSE IF in.cde /\ in.raw.val = in.lastValue THEN [in EXCEPT !.raw = NoBuffer]
    ELSE [in EXCEPT !.raw = NoBuffer, !.lastValue = in.raw.val, !.hasUpdate = TRUE]

\* a scan that gives up at the first buffer that does not decode
scanInputsStopAtError(s) ==
    [i \in 1..Len(s) |->
        IF \E j \in 1..i : s[j].raw.pending /\ ~s[j].raw.ok
        THEN IF s[i].raw.pending /\ ~s[i].raw.ok /\
                ~\E j \in 1..(i - 1) : s[j].raw.pending /\ ~s[j].raw.ok
             THEN scanInput(s[i]) ELSE s[i]
        ELSE scanInput(s[i])]

\* a scan that raises has-update for every pending buffer
scanInputsFlagAlways(s) ==
    [i \in 1..Len(s) |->
        IF s[i].raw.pending THEN [scanInput(s[i]) EXCEPT !.hasUpdate = TRUE]
        ELSE s[i]]

\* the scan of a time-advance return: every input with a pending buffer, in
\* registration order
scanInputs(s) == [i \in 1..Len(s) |-> scanInput(s[i])]

\* what the scan did with each input
scanOutcome(s) ==
    [i \in 1..Len(s) |->
        IF ~s[i].raw.pending THEN "none"
        ELSE IF ~s[i].raw.ok THEN "failed"
        ELSE IF scanInput(s[i]).lastValue = s[i].raw.val /\ scanInput(s[i]).hasUpdate
             THEN "stored" ELSE "retained"]

\* registration of an input with the federate, with or without change
\* detection
RegisterScanInput(cde) ==
    /\ Len(scan) < NumScanInputs
    /\ \A i \in 1..Len(scan) : ~scan[i].raw.pending
    /\ scan' = Append(scan, [raw |-> NoBuffer, hasUpdate |-> FALSE, lastValue |-> 0,
                             error |-> FALSE, cde |-> cde])
    /\ UNCHANGED <<coreVars, inputVectorOp, multi, msgFed, endpoint>>
    /\ last' = Call("registerInput", "", 0, cde, NoValue, FALSE)

\* the core receives a raw buffer for input i
ArriveRaw(i, buf) ==
    /\ ~scan[i].raw.pending
    /\ scan' = [scan EXCEPT ![i].raw = buf]
    /\ UNCHANGED <<coreVars, inputVectorOp, multi, msgFed, endpoint>>
    /\ last' = Call("arriveRaw", "", i, buf.ok, NoValue, FALSE)

\* time-advance return: the registry scans the inputs with pending buffers
ScanInputs ==
    /\ \E i \in 1..Len(scan) : scan[i].raw.pending
    /\ scan' = scanInputs(scan)
    /\ UNCHANGED <<coreVars, inputVectorOp, multi, msgFed, endpoint>>
    /\ last' = Call("scanInputs", "", 0, FALSE, DV("outcome", scanOutcome(scan)), FALSE)

\* a read of input i: the stored value is returned, a recorded decode error
\* is surfaced, and has-update is consumed
ReadInput(i) ==
    /\ scan' = [scan EXCEPT ![i].hasUpdate = FALSE, ![i].error = FALSE]
    /\ UNCHANGED <<coreVars, inputVectorOp, multi, msgFed, endpoint>>
    /\ last' = Call("readInput", "", i, scan[i].error, DV("double", scan[i].lastValue),
                    scan[i].hasUpdate)

ScanNext ==
    \/ \E cde \in BOOLEAN : RegisterScanInput(cde)
    \/ \E i \in 1..Len(scan), buf \in Buffers : ArriveRaw(i, buf)
    \/ ScanInputs
    \/ \E i \in 1..Len(scan) : ReadInput(i)

ScanInit ==
    /\ Constructed
    /\ outputUnits = ""
    /\ pubType = "double"
    /\ pubUnits = ""

SpecScan == ScanInit /\ [][ScanNext]_vars

\* the step in which the registry scans
scanStep == last'.op = "scanInputs" /\ last.op # "scanInputs"

C23_WitnessSurfaced ==
    /\ last.op = "readInput"
    /\ last.b
    /\ ~last.retB
    /\ ~scan[last.d].error

\* ================================================================ generateStringVector
\* Strings are sequences of characters. strVec.data is the container handed
\* to the two templates, each element [name, valid]: name is what the
\* generator produces for it, valid what the validator says; strVec.ret and
\* strVec.retIf are the strings returned for the current data, <<>> while the
\* function has not been called on it.
MaxData == 3
GeneratorOutputs == {<<>>, <<"a">>, <<"a", ",">>, <<"\"">>, <<"]">>}
Elements == [name : GeneratorOutputs, valid : BOOLEAN]

generator(ele) == ele.name
\* the validator as a function of the element, and one that accepts all
valid == [ele \in Elements |-> ele.valid]
always == [ele \in Elements |-> TRUE]

\* helics::generateJsonQuotedString: the string between double quotes, a
\* quote or a backslash inside it escaped by a backslash
RECURSIVE escaped(_)
escaped(str) ==
    IF str = <<>> THEN <<>>
    ELSE (IF Head(str) \in {"\"", "\\"} THEN <<"\\", Head(str)>> ELSE <<Head(str)>>)
             \o escaped(Tail(str))
generateJsonQuotedString(str) == <<"\"">> \o escaped(str) \o <<"\"">>

\* a closing step that appends the bracket whatever was written
closeBracketAppendOnly(ret) == Append(ret, "]")

\* if (ret.size() > 1) ret.back() = ']'; else ret.push_back(']')
closeBracket(ret) ==
    IF Len(ret) > 1 THEN [ret EXCEPT ![Len(ret)] = "]"] ELSE Append(ret, "]")

\* the loop of generateStringVector_if from element i on: a valid element
\* appends its quoted generator output and a comma
RECURSIVE appendValid(_, _, _, _)
appendValid(ret, data, i, validator) ==
    IF i > Len(data) THEN ret
    ELSE appendValid(IF validator[data[i]]
                     THEN ret \o generateJsonQuotedString(generator(data[i])) \o <<",">>
                     ELSE ret,
                     data, i + 1, validator)

\* the loop of generateStringVector from element i on
RECURSIVE appendEach(_, _, _)
appendEach(ret, data, i) ==
    IF i > Len(data) THEN ret
    ELSE appendEach(ret \o generateJsonQuotedString(generator(data[i])) \o <<",">>,
                    data, i + 1)

generateStringVector(data) == closeBracket(appendEach(<<"[">>, data, 1))
generateStringVector_if(data, validator) ==
    closeBracket(appendValid(<<"[">>, data, 1, validator))

\* an element is added to the container; results for the old data are void
PushBack(ele) ==
    /\ Len(strVec.data) < MaxData
    /\ strVec' = [data |-> Append(strVec.data, ele), ret |-> <<>>, retIf |-> <<>>]
    /\ UNCHANGED <<inputVars, fedVars, defaultValue, dispatchVars, loadCalls, inputVectorOp,
                   multi, scan, msgFed, endpoint>>
    /\ last' = Call("push_back", "", Len(strVec.data) + 1, ele.valid, NoValue, FALSE)

\* generateStringVector(data, generator)
GenerateStringVector ==
    /\ strVec' = [strVec EXCEPT !.ret = generateStringVector(strVec.data)]
    /\ UNCHANGED <<inputVars, fedVars, defaultValue, dispatchVars, loadCalls, inputVectorOp,
                   multi, scan, msgFed, endpoint>>
    /\ last' = Call("generateStringVector", "", 0, FALSE, NoValue, FALSE)

\* generateStringVector_if(data, generator, valid)
GenerateStringVectorIf ==
    /\ strVec' = [strVec EXCEPT !.retIf = generateStringVector_if(strVec.data, valid)]
    /\ UNCHANGED <<inputVars, fedVars, defaultValue, dispatchVars, loadCalls, inputVectorOp,
                   multi, scan, msgFed, endpoint>>
    /\ last' = Call("generateStringVector_if", "", 0, FALSE, NoValue, FALSE)

StrNext ==
    \/ \E ele \in Elements : PushBack(ele)
    \/ GenerateStringVector
    \/ GenerateStringVectorIf

StrInit ==
    /\ Constructed
    /\ outputUnits = ""
    /\ pubType = "double"
    /\ pubUnits = ""

SpecStr == StrInit /\ [][StrNext]_vars

\* the quoted generator outputs of the valid elements, in iteration order
quotedValid(data) ==
    LET isValid(ele) == valid[ele]
        kept == SelectSeq(data, isValid)
    IN  [i \in 1..Len(kept) |-> generateJsonQuotedString(generator(kept[i]))]

\* the items separated by commas, nothing after the last
RECURSIVE commaSeparated(_)
commaSeparated(items) ==
    IF items = <<>> THEN <<>>
    ELSE IF Len(items) = 1 THEN items[1]
    ELSE items[1] \o <<",">> \o commaSeparated(Tail(items))

\* C31: generateStringVector_if returns "[", the quoted generator outputs of
\* exactly the valid elements in iteration order separated by single commas,
\* and "]", so "[]" when the data is empty or nothing is valid; and
\* generateStringVector returns what generateStringVector_if returns under a
\* validator that accepts every element.
C31_StringVector ==
    /\ strVec.retIf # <<>> =>
           /\ strVec.retIf = <<"[">> \o commaSeparated(quotedValid(strVec.data)) \o <<"]">>
           /\ (\A i \in 1..Len(strVec.data) : ~strVec.data[i].valid) =>
                  strVec.retIf = <<"[", "]">>
    /\ strVec.ret # <<>> =>
           strVec.ret = generateStringVector_if(strVec.data, always)

\* three elements, the middle one not valid and the last one carrying a comma
\* and the first a quote: both functions have returned, with different lists
C31_Witness ==
    /\ Len(strVec.data) = 3
    /\ strVec.data[1] = [name |-> <<"\"">>, valid |-> TRUE]
    /\ ~strVec.data[2].valid
    /\ strVec.data[3] = [name |-> <<"a", ",">>, valid |-> TRUE]
    /\ strVec.retIf = <<"[", "\"", "\\", "\"", "\"", ",", "\"", "a", ",", "\"", "]">>
    /\ strVec.ret # <<>>
    /\ strVec.ret # strVec.retIf

\* data that is not empty with no valid element: "[]"
C31_WitnessNoneValid ==
    /\ Len(strVec.data) = 2
    /\ strVec.retIf = <<"[", "]">>

\* empty data: both return "[]"
C31_WitnessEmpty ==
    /\ strVec.data = <<>>
    /\ strVec.ret = <<"[", "]">>
    /\ strVec.retIf = <<"[", "]">>

====
